---- MODULE Spec2Model ----
(***************************************************************************)
(* Model of automate-machine-ui-fixes.py: the MachineUISchemaFixer class   *)
(* (schema store, test-result store, remote test/reload client, suggestion *)
(* generator, prompt formatter, fix and verify workflows) and the          *)
(* command-line entry point main().                                        *)
(*                                                                         *)
(* Text is a tuple of one-character strings, so that str.lower() and the   *)
(* substring operator `in` are computed and not assumed.  Python values    *)
(* and JSON texts are tagged records [t, v]; json.dump and json.load are   *)
(* the operators Dump and Load between the two.  A file is a sequence of   *)
(* written chunks, so that a file opened for writing and not yet written   *)
(* is empty and a file written by two writers can be mixed.                *)
(***************************************************************************)
EXTENDS Integers, Sequences, FiniteSets, TLC

VARIABLES
    fs,     \* the file system: path -> [exists, data]
    last,   \* the most recent completed call of the sequential API and what it returned
    procs   \* concurrent invocations: process -> its command, key, position and locals

vars == <<fs, last, procs>>

----------------------------------------------------------------------------
(* Text constants *)

K_success == <<"s","u","c","c","e","s","s">>
K_errors == <<"e","r","r","o","r","s">>
K_warnings == <<"w","a","r","n","i","n","g","s">>
K_error == <<"e","r","r","o","r">>
K_machineKind == <<"m","a","c","h","i","n","e","K","i","n","d">>
K_version == <<"v","e","r","s","i","o","n">>
K_groups == <<"g","r","o","u","p","s">>
K_process == <<"p","r","o","c","e","s","s">>
K_recipes == <<"r","e","c","i","p","e","s">>
N_not_found == <<"n","o","t"," ","f","o","u","n","d">>
N_file_not_found == <<"f","i","l","e"," ","n","o","t"," ","f","o","u","n","d">>
N_validation_failed == <<"v","a","l","i","d","a","t","i","o","n"," ","f","a","i","l","e","d">>
N_missing == <<"m","i","s","s","i","n","g">>
N_header == <<"h","e","a","d","e","r">>
N_process == <<"p","r","o","c","e","s","s">>
N_label == <<"l","a","b","e","l">>
N_invalid == <<"i","n","v","a","l","i","d">>
N_flow == <<"f","l","o","w">>
W_NotFound == <<"N","o","t"," ","F","o","u","n","d">>
W_Missing == <<"M","I","S","S","I","N","G">>
W_Header == <<"H","e","a","d","e","r">>
W_Process == <<"P","r","o","c","e","s","s">>
W_label == <<"l","a","b","e","l">>
W_Invalid == <<"I","N","V","A","L","I","D">>
W_overflow == <<"o","v","e","r","f","l","o","w">>
W_ValidationFailed == <<"V","a","l","i","d","a","t","i","o","n"," ","F","a","i","l","e","d">>
W_timeout == <<"t","i","m","e","o","u","t">>
E_header == <<"S","c","h","e","m","a"," ","v","a","l","i","d","a","t","i","o","n"," ","f","a","i","l","e","d",":"," ","m","i","s","s","i","n","g"," ","h","e","a","d","e","r"," ","i","n"," ","g","r","o","u","p"," ","2">>
E_HEADER == <<"V","A","L","I","D","A","T","I","O","N"," ","F","A","I","L","E","D",":"," ","m","i","s","s","i","n","g"," ","H","E","A","D","E","R">>
E_label == <<"m","i","s","s","i","n","g"," ","p","r","o","c","e","s","s"," ","l","a","b","e","l">>
E_notfound == <<"F","i","l","e"," ","n","o","t"," ","f","o","u","n","d">>
E_flow == <<"I","n","v","a","l","i","d"," ","f","l","o","w"," ","p","o","s","i","t","i","o","n">>
E_other == <<"t","i","m","e","o","u","t">>
M_deprecated == <<"d","e","p","r","e","c","a","t","e","d">>
M_furnace == <<"f","u","r","n","a","c","e">>
M_refused == <<"C","o","n","n","e","c","t","i","o","n"," ","r","e","f","u","s","e","d">>
M_timed_out == <<"R","e","a","d"," ","t","i","m","e","d"," ","o","u","t">>
M_http_500 == <<"5","0","0"," ","S","e","r","v","e","r"," ","E","r","r","o","r">>
M_bad_json == <<"E","x","p","e","c","t","i","n","g"," ","v","a","l","u","e">>

LowerMap ==
    [A |-> "a", B |-> "b", C |-> "c", D |-> "d", E |-> "e", F |-> "f", G |-> "g",
     H |-> "h", I |-> "i", J |-> "j", K |-> "k", L |-> "l", M |-> "m", N |-> "n",
     O |-> "o", P |-> "p", Q |-> "q", R |-> "r", S |-> "s", T |-> "t", U |-> "u",
     V |-> "v", W |-> "w", X |-> "x", Y |-> "y", Z |-> "z"]

\* str.lower()
Lower(s) == [i \in 1..Len(s) |-> IF s[i] \in DOMAIN LowerMap THEN LowerMap[s[i]] ELSE s[i]]

\* sub in s
Contains(s, sub) ==
    \E i \in 0..(Len(s) - Len(sub)) : \A j \in 1..Len(sub) : s[i + j] = sub[j]

Front(s) == SubSeq(s, 1, Len(s) - 1)

\* The value of a local name bound once: The({ e(x) : x \in {d} }) is e(d), with d
\* evaluated a single time.
The(S) == CHOOSE x \in S : TRUE

----------------------------------------------------------------------------
(* Python values *)

PNone == [t |-> "none", v |-> <<>>]
PBool(b) == [t |-> "bool", v |-> <<b>>]
PInt(n) == [t |-> "int", v |-> <<n>>]
PStr(s) == [t |-> "str", v |-> s]
PList(xs) == [t |-> "list", v |-> xs]
PTuple(xs) == [t |-> "tuple", v |-> xs]
PSet(xs) == [t |-> "set", v |-> xs]
\* a dict is its items in insertion order, the keys distinct
PDict(items) == [t |-> "dict", v |-> items]

EmptyDict == PDict(<<>>)

\* bool(x)
Truthy(x) ==
    CASE x.t = "none" -> FALSE
      [] x.t = "bool" -> x.v[1]
      [] x.t = "int" -> x.v[1] # 0
      [] OTHER -> Len(x.v) > 0

HasKey(d, k) == \E i \in 1..Len(d.v) : d.v[i][1] = k

\* d.get(k, default)
Get(d, k, default) ==
    IF HasKey(d, k)
    THEN d.v[CHOOSE i \in 1..Len(d.v) : d.v[i][1] = k][2]
    ELSE default

\* d[k] = x
SetItem(d, k, x) ==
    IF HasKey(d, k)
    THEN PDict([i \in 1..Len(d.v) |-> IF d.v[i][1] = k THEN <<k, x>> ELSE d.v[i]])
    ELSE PDict(Append(d.v, <<k, x>>))

\* a == b on the values modelled (dict equality ignores the order of items)
RECURSIVE PyEq(_, _)
PyEq(a, b) ==
    /\ a.t = b.t
    /\ Len(a.v) = Len(b.v)
    /\ CASE a.t \in {"list", "tuple"} ->
              \A i \in 1..Len(a.v) : PyEq(a.v[i], b.v[i])
         [] a.t = "dict" ->
              \A i \in 1..Len(a.v) :
                  /\ HasKey(b, a.v[i][1])
                  /\ PyEq(a.v[i][2], Get(b, a.v[i][1], PNone))
         [] OTHER -> a.v = b.v

----------------------------------------------------------------------------
(* JSON text, as the tree json.dump writes and json.load reads *)

JNull == [t |-> "null", v |-> <<>>]
JBool(b) == [t |-> "boolean", v |-> <<b>>]
JNum(n) == [t |-> "number", v |-> <<n>>]
JStr(s) == [t |-> "string", v |-> s]
JArr(xs) == [t |-> "array", v |-> xs]
\* members in the order written; a text may repeat a member name
JObj(members) == [t |-> "object", v |-> members]

DigitChars == <<"0", "1", "2", "3", "4", "5", "6", "7", "8", "9">>

RECURSIVE IntToStr(_)
IntToStr(n) ==
    IF n < 10 THEN <<DigitChars[n + 1]>>
    ELSE IntToStr(n \div 10) \o <<DigitChars[(n % 10) + 1]>>

\* json.dump turns a key that is not a str into its JSON spelling
KeyToJson(k) ==
    CASE k.t = "str" -> k.v
      [] k.t = "int" -> IntToStr(k.v[1])
      [] k.t = "bool" -> IF k.v[1] THEN <<"t", "r", "u", "e">> ELSE <<"f", "a", "l", "s", "e">>
      [] k.t = "none" -> <<"n", "u", "l", "l">>

\* json.dump raises TypeError on x
RECURSIVE Serializable(_)
Serializable(x) ==
    CASE x.t \in {"none", "bool", "int", "str"} -> TRUE
      [] x.t \in {"list", "tuple"} -> \A i \in 1..Len(x.v) : Serializable(x.v[i])
      [] x.t = "dict" ->
            \A i \in 1..Len(x.v) :
                /\ x.v[i][1].t \in {"str", "int", "bool", "none"}
                /\ Serializable(x.v[i][2])
      [] OTHER -> FALSE

\* json.dump(x): the text written for a serializable x
RECURSIVE Dump(_)
Dump(x) ==
    CASE x.t = "none" -> JNull
      [] x.t = "bool" -> JBool(x.v[1])
      [] x.t = "int" -> JNum(x.v[1])
      [] x.t = "str" -> JStr(x.v)
      [] x.t \in {"list", "tuple"} -> JArr([i \in 1..Len(x.v) |-> Dump(x.v[i])])
      [] x.t = "dict" ->
            JObj([i \in 1..Len(x.v) |-> <<KeyToJson(x.v[i][1]), Dump(x.v[i][2])>>])

\* json.load(text): objects become dicts (a repeated name keeps its last value),
\* arrays become lists
RECURSIVE Load(_)
RECURSIVE LoadMembers(_, _)
LoadMembers(members, d) ==
    IF members = <<>> THEN d
    ELSE LoadMembers(Tail(members),
                     SetItem(d, PStr(Head(members)[1]), Load(Head(members)[2])))
Load(j) ==
    CASE j.t = "null" -> PNone
      [] j.t = "boolean" -> PBool(j.v[1])
      [] j.t = "number" -> PInt(j.v[1])
      [] j.t = "string" -> PStr(j.v)
      [] j.t = "array" -> PList([i \in 1..Len(j.v) |-> Load(j.v[i])])
      [] j.t = "object" -> LoadMembers(j.v, EmptyDict)

----------------------------------------------------------------------------
(* Files and paths *)

SCHEMA_DIR == "FactoryForge/Assets"
OUTPUT_DIR == ".machine-ui-test-results"

\* A machine-type key is the tuple of its "/"-separated components.
\* Path(dir) / f"{key}{suffix}": pathlib drops the empty and "." components of the
\* joined name; the last component of the key is glued to the suffix and is kept.
JoinPath(dir, key, suffix) ==
    [dir |-> dir,
     sub |-> SelectSeq(Front(key), LAMBDA c : c \notin {"", "."}),
     name |-> <<key[Len(key)], suffix>>]

\* a slip: one prompt file for every machine type
PromptFile_Shared(key) == JoinPath(OUTPUT_DIR, Front(key) \o <<"furnace">>, "_fix_prompt.md")

SchemaFile(key) == JoinPath(SCHEMA_DIR, key, "_schema.json")
ResultFile(key) == JoinPath(OUTPUT_DIR, key, "_test_raw.json")
PromptFile(key) == JoinPath(OUTPUT_DIR, key, "_fix_prompt.md")

\* str(path)
PathStr(p) == <<p.dir>> \o p.sub \o p.name

NoFile == [exists |-> FALSE, data |-> <<>>]
File(data) == [exists |-> TRUE, data |-> data]

\* The chunks in which a text reaches the file: one per top-level member
\* (json.dump writes the encoder's chunks one by one), at least one.
NChunks(text) == IF text.t = "object" /\ Len(text.v) > 1 THEN Len(text.v) ELSE 1
Chunks(text) == [i \in 1..NChunks(text) |-> [doc |-> text, i |-> i]]

\* the file holds exactly one complete text
Complete(data) == data # <<>> /\ data = Chunks(data[1].doc)

Returned(x) == [status |-> "returned", value |-> x]
Raised(e) == [status |-> "raised", value |-> e]

\* with open(file, 'r') as f: return json.load(f)
ReadJson(data) ==
    IF Complete(data) /\ data[1].doc.t \notin {"prompt", "partial", "hole"}
    THEN Returned(Load(data[1].doc))
    ELSE Raised("JSONDecodeError")

\* open(file, 'w'): the file exists and is empty
Truncate(f, path) == [f EXCEPT ![path] = File(<<>>)]

\* the zero bytes of a file written past its end
Hole == [doc |-> [t |-> "hole", v |-> <<>>], i |-> 0]

\* one write() of a chunk at position pos of an open file: it replaces what is
\* there and extends the file when it ends before pos
WriteAt(f, path, pos, chunk) ==
    LET old == f[path].data
    IN [f EXCEPT ![path] =
            File([i \in 1..(IF Len(old) > pos THEN Len(old) ELSE pos) |->
                      IF i = pos THEN chunk ELSE IF i <= Len(old) THEN old[i] ELSE Hole])]

\* open(file, 'w'), write every chunk, close: with no other writer in between
WriteFile(f, path, data) == [f EXCEPT ![path] = File(data)]

----------------------------------------------------------------------------
(* Schema store and test-result store *)

\* load_test_results(machine_type)
load_test_results(f, key) ==
    IF ~f[ResultFile(key)].exists
    THEN Returned(EmptyDict)
    ELSE ReadJson(f[ResultFile(key)].data)

\* load_schema(machine_type)
load_schema(f, key) ==
    IF ~f[SchemaFile(key)].exists
    THEN Returned(EmptyDict)
    ELSE ReadJson(f[SchemaFile(key)].data)

\* How many top-level items json.dump writes before it meets an item it cannot
\* serialize
RECURSIVE GoodPrefix(_)
GoodPrefix(items) ==
    IF items = <<>> THEN 0
    ELSE IF Head(items)[1].t \in {"str", "int", "bool", "none"} /\ Serializable(Head(items)[2])
         THEN 1 + GoodPrefix(Tail(items))
         ELSE 0

\* a slip: the file is opened without truncation, so a shorter text leaves the tail of
\* the longer text it overwrites
save_schema_NoTruncate(f, key, schema) ==
    IF Serializable(schema)
    THEN [fs |-> WriteFile(f, SchemaFile(key),
                           Chunks(Dump(schema))
                           \o SubSeq(f[SchemaFile(key)].data, NChunks(Dump(schema)) + 1,
                                     Len(f[SchemaFile(key)].data))),
          ret |-> TRUE]
    ELSE [fs |-> f, ret |-> FALSE]

\* save_schema(machine_type, schema): [fs, ret]
save_schema(f, key, schema) ==
    IF Serializable(schema)
    THEN [fs |-> WriteFile(f, SchemaFile(key), Chunks(Dump(schema))), ret |-> TRUE]
    ELSE \* the file is open and holds what was written before the TypeError
         [fs |-> WriteFile(f, SchemaFile(key),
                           [i \in 1..GoodPrefix(schema.v) |-> [doc |-> [t |-> "partial", v |-> <<>>], i |-> i]]),
          ret |-> FALSE]

----------------------------------------------------------------------------
(* Remote test/reload client *)

\* What requests.post, raise_for_status and response.json() can do
Failures == {"ConnectionError", "Timeout", "HTTPError", "JSONDecodeError"}
Fail(kind) == [kind |-> kind, body |-> JNull]
Ok(body) == [kind |-> "ok", body |-> body]
NoOutcome == [kind |-> "none", body |-> JNull]

\* str(e)
ErrorText(kind) ==
    CASE kind = "ConnectionError" -> M_refused
      [] kind = "Timeout" -> M_timed_out
      [] kind = "HTTPError" -> M_http_500
      [] kind = "JSONDecodeError" -> M_bad_json

FailureResult(out) ==
    PDict(<< <<PStr(K_success), PBool(FALSE)>>,
             <<PStr(K_error), PStr(ErrorText(out.kind))>> >>)

\* a slip: the result file is opened for writing before the request is sent
test_schema_OpenFirst(f, key, out) ==
    IF out.kind = "ok"
    THEN The({ [fs |-> WriteFile(f, ResultFile(key), Chunks(Dump(result))), ret |-> result]
               : result \in {Load(out.body)} })
    ELSE [fs |-> Truncate(f, ResultFile(key)), ret |-> FailureResult(out)]

\* a slip: only a result that reports success is persisted
test_schema_SaveValidOnly(f, key, out) ==
    IF out.kind = "ok"
    THEN The({ [fs |-> IF Truthy(Get(result, PStr(K_success), PNone))
                       THEN WriteFile(f, ResultFile(key), Chunks(Dump(result)))
                       ELSE f,
                ret |-> result]
               : result \in {Load(out.body)} })
    ELSE [fs |-> f, ret |-> FailureResult(out)]

\* test_schema(machine_type), the service answering out: [fs, ret]
test_schema(f, key, out) ==
    IF out.kind = "ok"
    THEN The({ [fs |-> WriteFile(f, ResultFile(key), Chunks(Dump(result))), ret |-> result]
               : result \in {Load(out.body)} })
    ELSE [fs |-> f, ret |-> FailureResult(out)]

\* reload_schema(machine_type), the service answering out
reload_schema(out) ==
    IF out.kind = "ok"
    THEN Get(Load(out.body), PStr(K_success), PBool(FALSE))
    ELSE PBool(FALSE)

----------------------------------------------------------------------------
(* Suggestion generator *)

\* The if/elif chain of the loop over errors: the entries an error whose lower-cased
\* text is error_lower appends to fixes_needed
Classify(key, error_lower) ==
    IF Contains(error_lower, N_not_found) \/ Contains(error_lower, N_file_not_found)
    THEN << [issue |-> "Schema file missing",
             action |-> <<"Create">> \o key \o <<"_schema.json", "in", SCHEMA_DIR>>,
             priority |-> "high"] >>
    ELSE IF Contains(error_lower, N_validation_failed) \/ Contains(error_lower, N_missing)
    THEN IF Contains(error_lower, N_header)
         THEN << [issue |-> "Missing group header",
                  action |-> <<"Add 'header' field to all groups in schema">>,
                  priority |-> "high",
                  schema_section |-> "groups"] >>
         ELSE IF Contains(error_lower, N_process) /\ Contains(error_lower, N_label)
         THEN << [issue |-> "Missing process label",
                  action |-> <<"Add 'label.text' field to process in schema">>,
                  priority |-> "high",
                  schema_section |-> "process"] >>
         ELSE <<>>
    ELSE IF Contains(error_lower, N_invalid) \/ Contains(error_lower, N_flow)
    THEN << [issue |-> "Invalid flow position",
             action |-> <<"Check group anchor positions relative to process anchor">>,
             priority |-> "medium",
             schema_section |-> "groups"] >>
    ELSE <<>>

\* a slip: the text is matched as it came
AnalyzeError_CaseSensitive(key, error) == Classify(key, error)

\* The body of the loop over errors: error_lower = error.lower(), then the chain
AnalyzeError(key, error) == The({ Classify(key, error_lower) : error_lower \in {Lower(error)} })

\* for error in errors: ... (errors a tuple of str values)
RECURSIVE FixesNeeded(_, _)
FixesNeeded(key, errors) ==
    IF errors = <<>> THEN <<>>
    ELSE AnalyzeError(key, Head(errors).v) \o FixesNeeded(key, Tail(errors))

SchemaSnippet(schema) ==
    IF Truthy(schema)
    THEN PDict(<< <<PStr(K_machineKind), Get(schema, PStr(K_machineKind), PNone)>>,
                  <<PStr(K_version), Get(schema, PStr(K_version), PNone)>>,
                  <<PStr(K_groups), PInt(Len(Get(schema, PStr(K_groups), PList(<<>>)).v))>>,
                  <<PStr(K_process), PBool(HasKey(schema, PStr(K_process)))>>,
                  <<PStr(K_recipes), PBool(HasKey(schema, PStr(K_recipes)))>> >>)
    ELSE EmptyDict

NoResults == [error |-> "No test results found"]

\* get_fix_suggestions from its two loads on: test_result and schema are what
\* load_test_results and load_schema returned or raised
Suggest(key, test_result, schema) ==
    IF test_result.status = "raised" THEN test_result
    ELSE IF schema.status = "raised" THEN schema
    ELSE IF ~Truthy(test_result.value) THEN Returned(NoResults)
    ELSE LET errors == Get(test_result.value, PStr(K_errors), PList(<<>>))
             warnings == Get(test_result.value, PStr(K_warnings), PList(<<>>))
         IN Returned([machine_type |-> key,
                      schema_file |-> PathStr(SchemaFile(key)),
                      errors |-> errors,
                      warnings |-> warnings,
                      fixes_needed |-> FixesNeeded(key, errors.v),
                      schema_snippet |-> SchemaSnippet(schema.value)])

\* get_fix_suggestions(machine_type)
get_fix_suggestions(f, key) ==
    The({ Suggest(key, test_result, schema)
          : test_result \in {load_test_results(f, key)}, schema \in {load_schema(f, key)} })

----------------------------------------------------------------------------
(* Prompt formatter *)

\* suggestions.get(name) is truthy
HasSection(suggestions, name) ==
    /\ name \in DOMAIN suggestions
    /\ IF name = "fixes_needed" THEN suggestions[name] # <<>> ELSE Truthy(suggestions[name])

\* generate_llm_prompt from its suggestions and its load of the schema on: the
\* sections of the prompt in order.  The schema dump is cut at 1000 characters; the
\* schemas modelled are shorter.
Render(key, got, schema) ==
    IF got.status = "raised" THEN got
    ELSE IF schema.status = "raised" THEN schema
    ELSE IF "schema_file" \notin DOMAIN got.value THEN Raised("KeyError")
    ELSE Returned(
             << [h |-> "title", text |-> key] >>
             \o (IF HasSection(got.value, "errors")
                 THEN << [h |-> "errors", text |-> got.value.errors.v] >> ELSE <<>>)
             \o (IF HasSection(got.value, "warnings")
                 THEN << [h |-> "warnings", text |-> got.value.warnings.v] >> ELSE <<>>)
             \o (IF HasSection(got.value, "fixes_needed")
                 THEN << [h |-> "fixes", text |-> got.value.fixes_needed] >> ELSE <<>>)
             \o << [h |-> "location", text |-> got.value.schema_file],
                   [h |-> "schema", text |-> Dump(schema.value)],
                   [h |-> "task", text |-> got.value.schema_file] >>)

\* generate_llm_prompt(machine_type)
generate_llm_prompt(f, key) ==
    The({ Render(key, got, schema)
          : got \in {get_fix_suggestions(f, key)}, schema \in {load_schema(f, key)} })

----------------------------------------------------------------------------
(* Workflow orchestrator *)

Succeeded(result) == Truthy(Get(result, PStr(K_success), PNone))

PromptData(prompt) == << [doc |-> [t |-> "prompt", v |-> prompt], i |-> 1] >>

\* run_fix_workflow, from the suggestions and the prompt on
FinishFix(key, tested, suggestions, prompt) ==
    IF suggestions.status = "raised"
    THEN [fs |-> tested.fs, ret |-> suggestions, testRet |-> tested.ret]
    ELSE IF prompt.status = "raised"
    THEN [fs |-> tested.fs, ret |-> prompt, testRet |-> tested.ret]
    ELSE IF "schema_file" \notin DOMAIN suggestions.value
    THEN [fs |-> WriteFile(tested.fs, PromptFile(key), PromptData(prompt.value)),
          ret |-> Raised("KeyError"), testRet |-> tested.ret]
    ELSE [fs |-> WriteFile(tested.fs, PromptFile(key), PromptData(prompt.value)),
          ret |-> Returned([success |-> FALSE,
                            fixes_needed |-> TRUE,
                            prompt_file |-> PathStr(PromptFile(key)),
                            schema_file |-> suggestions.value.schema_file,
                            suggestions |-> suggestions.value]),
          testRet |-> tested.ret]

\* run_fix_workflow(machine_type): [fs, ret, testRet]
run_fix_workflow(f, key, out) ==
    The({ IF Succeeded(tested.ret)
          THEN [fs |-> tested.fs,
                ret |-> Returned([success |-> TRUE, message |-> "No fixes needed"]),
                testRet |-> tested.ret]
          ELSE The({ FinishFix(key, tested, suggestions, prompt)
                     : suggestions \in {get_fix_suggestions(tested.fs, key)},
                       prompt \in {generate_llm_prompt(tested.fs, key)} })
          : tested \in {test_schema(f, key, out)} })

\* a slip: the reload decides the overall success
verify_fix_ReloadDecides(f, key, out, rout) ==
    The({ IF Succeeded(tested.ret)
          THEN [fs |-> tested.fs,
                ret |-> Returned([success |-> Truthy(reload_schema(rout)),
                                  test_result |-> tested.ret]),
                testRet |-> tested.ret,
                reloads |-> 1,
                reloaded |-> Truthy(reload_schema(rout))]
          ELSE [fs |-> tested.fs,
                ret |-> Returned([success |-> FALSE, test_result |-> tested.ret]),
                testRet |-> tested.ret,
                reloads |-> 0,
                reloaded |-> FALSE]
          : tested \in {test_schema(f, key, out)} })

\* verify_fix(machine_type): [fs, ret, testRet, reloads, reloaded]
verify_fix(f, key, out, rout) ==
    The({ IF Succeeded(tested.ret)
          THEN [fs |-> tested.fs,
                ret |-> Returned([success |-> TRUE, test_result |-> tested.ret]),
                testRet |-> tested.ret,
                reloads |-> 1,
                reloaded |-> Truthy(reload_schema(rout))]
          ELSE [fs |-> tested.fs,
                ret |-> Returned([success |-> FALSE, test_result |-> tested.ret]),
                testRet |-> tested.ret,
                reloads |-> 0,
                reloaded |-> FALSE]
          : tested \in {test_schema(f, key, out)} })

----------------------------------------------------------------------------
(* Command-line entry point *)

\* sys.exit(0 if result.get("success") else 1); an uncaught exception ends the
\* interpreter with status 1
ExitOf(ret) == IF ret.status = "returned" /\ ret.value.success THEN 0 ELSE 1

NoFlow(f, stdout) ==
    [fs |-> f, exit |-> 1, flow |-> "none", stdout |-> stdout,
     ret |-> Returned(PNone), testRet |-> PNone, reloads |-> 0]

\* main() with sys.argv[1:] = args: [fs, exit, flow, stdout, ret, testRet, reloads]
main(f, args, out, rout) ==
    IF Len(args) + 1 < 2 THEN NoFlow(f, "usage")
    ELSE IF args[1] = <<"fix">>
    THEN IF Len(args) + 1 < 3 THEN NoFlow(f, "machine_type required")
         ELSE The({ [fs |-> r.fs, exit |-> ExitOf(r.ret), flow |-> "fix",
                     stdout |-> "progress", ret |-> r.ret, testRet |-> r.testRet,
                     reloads |-> 0]
                    : r \in {run_fix_workflow(f, args[2], out)} })
    ELSE IF args[1] = <<"verify">>
    THEN IF Len(args) + 1 < 3 THEN NoFlow(f, "machine_type required")
         ELSE The({ [fs |-> r.fs, exit |-> ExitOf(r.ret), flow |-> "verify",
                     stdout |-> "progress", ret |-> r.ret, testRet |-> r.testRet,
                     reloads |-> r.reloads]
                    : r \in {verify_fix(f, args[2], out, rout)} })
    ELSE IF args[1] = <<"test">>
    THEN IF Len(args) + 1 < 3 THEN NoFlow(f, "machine_type required")
         ELSE The({ [fs |-> r.fs, exit |-> IF Succeeded(r.ret) THEN 0 ELSE 1,
                     flow |-> "test", stdout |-> "result", ret |-> Returned(r.ret),
                     testRet |-> r.ret, reloads |-> 0]
                    : r \in {test_schema(f, args[2], out)} })
    ELSE NoFlow(f, "unknown command")

----------------------------------------------------------------------------
(* Inputs *)

Furnace == <<"furnace">>
DotFurnace == <<".", "furnace">>
Assembler == <<"assembler">>

\* keys of the sequential workflows, of the schema store and of the concurrent runs
FlowKeys == {Furnace}
StoreKeys == {Furnace, Assembler}
ConcKeys == {Furnace, DotFurnace, Assembler}
AllKeys == FlowKeys \cup StoreKeys \cup ConcKeys

Paths == UNION {{SchemaFile(k), ResultFile(k), PromptFile(k)} : k \in AllKeys}

NoFiles == [p \in Paths |-> NoFile]

\* a schema as the application ships it
NativeSchema ==
    PDict(<< <<PStr(K_machineKind), PStr(M_furnace)>>,
             <<PStr(K_version), PInt(1)>>,
             <<PStr(K_groups), PList(<<EmptyDict, EmptyDict>>)>>,
             <<PStr(K_process), EmptyDict>> >>)

\* responses of the service to test_machine_ui_schema
B_valid ==
    JObj(<< <<K_success, JBool(TRUE)>>,
            <<K_errors, JArr(<<>>)>>,
            <<K_warnings, JArr(<<JStr(M_deprecated)>>)>> >>)
B_header ==
    JObj(<< <<K_success, JBool(FALSE)>>,
            <<K_errors, JArr(<<JStr(E_header), JStr(E_other)>>)>>,
            <<K_warnings, JArr(<<>>)>> >>)
B_notfound ==
    JObj(<< <<K_success, JBool(FALSE)>>,
            <<K_errors, JArr(<<JStr(E_notfound)>>)>> >>)
B_empty == JObj(<<>>)

Bodies == {B_valid, B_header, B_notfound, B_empty}
TestOutcomes == {Fail(k) : k \in Failures} \cup {Ok(b) : b \in Bodies}

\* responses of the service to reload_machine_ui_schema
ReloadOutcomes ==
    {Fail("ConnectionError"),
     Ok(JObj(<< <<K_success, JBool(TRUE)>> >>)),
     Ok(JObj(<< <<K_success, JBool(FALSE)>> >>)),
     Ok(JObj(<<>>))}

\* sys.argv[1:], each argument the tuple of its "/"-separated components
ArgLists ==
    {<<>>, <<Furnace>>}
    \cup {<<c>> : c \in {<<"fix">>, <<"verify">>, <<"test">>, <<"status">>}}
    \cup {<<c, Furnace>> : c \in {<<"fix">>, <<"verify">>, <<"test">>, <<"status">>}}
    \cup {<<c, Furnace, <<"--force">> >> : c \in {<<"fix">>, <<"verify">>, <<"test">>}}

\* The service answers only the requests that are made: a test request by the three
\* flows, a reload request by a verify flow whose test succeeded.
TestAnswers(args) ==
    IF Len(args) >= 2 /\ args[1] \in {<<"fix">>, <<"verify">>, <<"test">>}
    THEN TestOutcomes
    ELSE {NoOutcome}

ReloadAnswers(verifying, out) ==
    IF verifying /\ out.kind = "ok" /\ Truthy(Get(Load(out.body), PStr(K_success), PNone))
    THEN ReloadOutcomes
    ELSE {NoOutcome}

----------------------------------------------------------------------------
(* Sequential use: one call at a time, each running to its end *)

NoCall ==
    [op |-> "none", key |-> <<>>, args |-> <<>>, http |-> NoOutcome, rhttp |-> NoOutcome,
     before |-> NoFile, doc |-> PNone, ret |-> Returned(PNone), testRet |-> PNone, reloads |-> 0,
     exit |-> 0, flow |-> "none", stdout |-> "none"]

Idle == <<>>

TestSchema(key, out) ==
    \E r \in {test_schema(fs, key, out)} :
       /\ fs' = r.fs
       /\ last' = [NoCall EXCEPT !.op = "test_schema", !.key = key, !.http = out,
                                 !.before = fs[ResultFile(key)],
                                 !.ret = Returned(r.ret), !.testRet = r.ret]
       /\ UNCHANGED procs

ReloadSchema(key, rout) ==
    /\ last' = [NoCall EXCEPT !.op = "reload_schema", !.key = key, !.rhttp = rout,
                              !.before = fs[ResultFile(key)],
                              !.ret = Returned(reload_schema(rout)), !.reloads = 1]
    /\ UNCHANGED <<fs, procs>>

LoadTestResults(key) ==
    /\ last' = [NoCall EXCEPT !.op = "load_test_results", !.key = key,
                              !.before = fs[ResultFile(key)],
                              !.ret = load_test_results(fs, key)]
    /\ UNCHANGED <<fs, procs>>

GetFixSuggestions(key) ==
    /\ last' = [NoCall EXCEPT !.op = "get_fix_suggestions", !.key = key,
                              !.before = fs[ResultFile(key)],
                              !.ret = get_fix_suggestions(fs, key)]
    /\ UNCHANGED <<fs, procs>>

RunFixWorkflow(key, out) ==
    \E r \in {run_fix_workflow(fs, key, out)} :
       /\ fs' = r.fs
       /\ last' = [NoCall EXCEPT !.op = "run_fix_workflow", !.key = key, !.http = out,
                                 !.before = fs[ResultFile(key)],
                                 !.ret = r.ret, !.testRet = r.testRet]
       /\ UNCHANGED procs

VerifyFix(key, out, rout) ==
    \E r \in {verify_fix(fs, key, out, rout)} :
       /\ fs' = r.fs
       /\ last' = [NoCall EXCEPT !.op = "verify_fix", !.key = key, !.http = out,
                                 !.rhttp = rout,
                                 !.before = fs[ResultFile(key)],
                                 !.ret = r.ret, !.testRet = r.testRet,
                                 !.reloads = r.reloads]
       /\ UNCHANGED procs

Main(args, out, rout) ==
    \E r \in {main(fs, args, out, rout)} :
       /\ fs' = r.fs
       /\ last' = [NoCall EXCEPT !.op = "main", !.args = args,
                                 !.key = IF Len(args) >= 2 THEN args[2] ELSE <<>>,
                                 !.http = out, !.rhttp = rout,
                                 !.before = IF Len(args) >= 2 THEN fs[ResultFile(args[2])]
                                            ELSE NoFile,
                                 !.ret = r.ret, !.testRet = r.testRet,
                                 !.reloads = r.reloads, !.exit = r.exit,
                                 !.flow = r.flow, !.stdout = r.stdout]
       /\ UNCHANGED procs

\* The schema file of each key is there or not when the tool starts; no result
\* or prompt has been written yet.
Init ==
    /\ \E present \in SUBSET FlowKeys :
          fs = [p \in Paths |->
                  IF \E k \in present : p = SchemaFile(k)
                  THEN File(Chunks(Dump(NativeSchema)))
                  ELSE NoFile]
    /\ last = NoCall
    /\ procs = Idle

Next ==
    \/ \E k \in FlowKeys, out \in TestOutcomes : TestSchema(k, out)
    \/ \E k \in FlowKeys, rout \in ReloadOutcomes : ReloadSchema(k, rout)
    \/ \E k \in FlowKeys : LoadTestResults(k)
    \/ \E k \in FlowKeys : GetFixSuggestions(k)
    \/ \E k \in FlowKeys, out \in TestOutcomes : RunFixWorkflow(k, out)
    \/ \E k \in FlowKeys, out \in TestOutcomes :
          \E rout \in ReloadAnswers(TRUE, out) : VerifyFix(k, out, rout)
    \/ \E args \in ArgLists :
          \E out \in TestAnswers(args) :
              \E rout \in ReloadAnswers(Len(args) >= 1 /\ args[1] = <<"verify">>, out) :
                  Main(args, out, rout)

Spec == Init /\ [][Next]_vars

----------------------------------------------------------------------------
(* The schema store used on its own *)

\* mappings a caller may hand to save_schema
D_intkey == PDict(<< <<PInt(1), PStr(M_furnace)>> >>)
D_tuple == PDict(<< <<PStr(K_groups), PTuple(<<PInt(1), PInt(2)>>)>> >>)
D_set == PDict(<< <<PStr(K_version), PInt(2)>>, <<PStr(K_groups), PSet(<<>>)>> >>)

Docs == {NativeSchema, EmptyDict, D_intkey, D_tuple, D_set}

SaveSchema(key, schema) ==
    \E r \in {save_schema(fs, key, schema)} :
       /\ fs' = r.fs
       /\ last' = [NoCall EXCEPT !.op = "save_schema", !.key = key, !.doc = schema,
                                 !.before = fs[SchemaFile(key)],
                                 !.ret = Returned(PBool(r.ret))]
       /\ UNCHANGED procs

LoadSchema(key) ==
    /\ last' = [NoCall EXCEPT !.op = "load_schema", !.key = key,
                              !.before = fs[SchemaFile(key)],
                              !.ret = load_schema(fs, key)]
    /\ UNCHANGED <<fs, procs>>

StoreInit ==
    /\ fs = NoFiles
    /\ last = NoCall
    /\ procs = Idle

StoreNext ==
    \/ \E k \in StoreKeys, d \in Docs : SaveSchema(k, d)
    \/ \E k \in StoreKeys : LoadSchema(k)

SpecStore == StoreInit /\ [][StoreNext]_vars

----------------------------------------------------------------------------
(* The suggestion generator on the errors of a persisted test result *)

MaxWords == 3
MaxErrs == 2

Words ==
    <<W_NotFound, W_ValidationFailed, W_Missing, W_Header, W_Process, W_label,
      W_Invalid, W_overflow, W_timeout>>

\* the words numbered in S, in order, separated by blanks
RECURSIVE JoinWords(_, _)
JoinWords(S, i) ==
    IF i > Len(Words) THEN <<>>
    ELSE IF i \in S
    THEN (IF \E j \in S : j > i THEN Words[i] \o <<" ">> ELSE Words[i]) \o JoinWords(S, i + 1)
    ELSE JoinWords(S, i + 1)

WordTexts == {JoinWords(S, 1) : S \in {T \in SUBSET (1..Len(Words)) : Cardinality(T) <= MaxWords}}

SampleErrors == {E_header, E_HEADER, E_label, E_notfound, E_flow, E_other}

ErrorLists ==
    {<<PStr(e)>> : e \in WordTexts}
    \cup UNION {[1..n -> {PStr(e) : e \in SampleErrors}] : n \in 0..MaxErrs}

FailedResult(errors) ==
    PDict(<< <<PStr(K_success), PBool(FALSE)>>, <<PStr(K_errors), PList(errors)>> >>)

SuggestInit ==
    /\ \E errors \in ErrorLists :
          fs = [NoFiles EXCEPT ![ResultFile(Furnace)] = File(Chunks(Dump(FailedResult(errors))))]
    /\ last = NoCall
    /\ procs = Idle

SuggestNext == GetFixSuggestions(Furnace)

SpecSuggest == SuggestInit /\ [][SuggestNext]_vars

----------------------------------------------------------------------------
(* Concurrent invocations: two runs of the tool, each a process of its own,   *)
(* interleaved at the grain of their requests and of their file operations    *)

Procs == {"p", "q"}
Commands == {"fix", "verify", "test"}
ConcOutcomes == {Fail("ConnectionError"), Ok(B_valid), Ok(B_notfound)}

\* the files a run on key names
OwnPaths(key) == {SchemaFile(key), ResultFile(key), PromptFile(key)}

StartFiles == [NoFiles EXCEPT ![SchemaFile(Furnace)] = File(Chunks(Dump(NativeSchema)))]

\* A run about to start.  Besides the position and the locals of the code it
\* carries what it observed: seen, the result file as it last read it; touched, the
\* paths it opened or tested; alone, its own files as they would be had it run
\* alone; clean, whether every read so far found the file as in alone.
Start(cmd, key) ==
    [cmd |-> cmd, key |-> key, pc |-> "post", out |-> NoOutcome, pos |-> 0,
     val |-> Returned(PNone), suggestions |-> Returned(PNone), got |-> Returned(PNone),
     prompt |-> Returned(<<>>), status |-> "running", seen |-> NoFile,
     touched |-> {}, alone |-> [x \in OwnPaths(key) |-> StartFiles[x]], clean |-> TRUE]

TestResultOf(out) == IF out.kind = "ok" THEN Load(out.body) ELSE FailureResult(out)

\* where a flow goes once test_schema has returned test_result
AfterTest(cmd, test_result) ==
    IF cmd = "test" THEN "done"
    ELSE IF cmd = "verify" THEN (IF Succeeded(test_result) THEN "reload" ELSE "done")
    ELSE (IF Succeeded(test_result) THEN "done" ELSE "suggest_result")

Finish(me, status) == [me EXCEPT !.pc = "done", !.status = status]

\* bookkeeping of a run: a path it opened, a write it made (repeated on alone), a
\* read it made (compared with alone)
Touch(me, path) == [me EXCEPT !.touched = me.touched \cup {path}]
WroteAlone(me, path, pos, chunk) == [me EXCEPT !.alone = WriteAt(me.alone, path, pos, chunk)]
Observed(me, f, path) ==
    [Touch(me, path) EXCEPT !.clean = me.clean /\ f[path] = me.alone[path]]

\* test_schema: requests.post ... response.json()
Post(p, out) ==
    /\ procs[p].pc = "post"
    /\ \E me \in {[procs[p] EXCEPT !.out = out]} :
          procs' = [procs EXCEPT ![p] =
              IF out.kind = "ok" THEN [me EXCEPT !.pc = "open_result"]
              ELSE IF AfterTest(me.cmd, FailureResult(out)) = "done"
              THEN Finish(me, "returned")
              ELSE [me EXCEPT !.pc = AfterTest(me.cmd, FailureResult(out))]]
    /\ UNCHANGED <<fs, last>>

\* test_schema: open(result_file, 'w')
OpenResult(p) ==
    /\ procs[p].pc = "open_result"
    /\ \E me \in {procs[p]}, path \in {ResultFile(procs[p].key)} :
          /\ fs' = Truncate(fs, path)
          /\ procs' = [procs EXCEPT ![p] =
                [Touch(me, path) EXCEPT !.pc = "write_result", !.pos = 1,
                                        !.alone = Truncate(me.alone, path)]]
    /\ UNCHANGED last

\* test_schema: json.dump(result, f), one chunk; after the last one the file is
\* closed and test_schema returns
WriteResult(p) ==
    /\ procs[p].pc = "write_result"
    /\ \E me \in {procs[p]}, path \in {ResultFile(procs[p].key)},
          data \in {Chunks(Dump(Load(procs[p].out.body)))} :
          /\ fs' = WriteAt(fs, path, me.pos, data[me.pos])
          /\ \E wrote \in {WroteAlone(me, path, me.pos, data[me.pos])} :
                procs' = [procs EXCEPT ![p] =
                    IF me.pos < Len(data) THEN [wrote EXCEPT !.pos = me.pos + 1]
                    ELSE IF AfterTest(me.cmd, TestResultOf(me.out)) = "done"
                    THEN Finish(wrote, "returned")
                    ELSE [wrote EXCEPT !.pc = AfterTest(me.cmd, TestResultOf(me.out))]]
    /\ UNCHANGED last

\* verify_fix: reload_schema, whatever it returns
Reload(p, rout) ==
    /\ procs[p].pc = "reload"
    /\ procs' = [procs EXCEPT ![p] = Finish(procs[p], "returned")]
    /\ UNCHANGED <<fs, last>>

\* run_fix_workflow: get_fix_suggestions, its load_test_results
SuggestReadResult(p) ==
    /\ procs[p].pc = "suggest_result"
    /\ \E r \in {load_test_results(fs, procs[p].key)},
          me \in {[Observed(procs[p], fs, ResultFile(procs[p].key))
                      EXCEPT !.seen = fs[ResultFile(procs[p].key)]]} :
          procs' = [procs EXCEPT ![p] =
              IF r.status = "raised" THEN Finish(me, "raised")
              ELSE [me EXCEPT !.val = r, !.pc = "suggest_schema"]]
    /\ UNCHANGED <<fs, last>>

\* run_fix_workflow: get_fix_suggestions, its load_schema and the rest
SuggestReadSchema(p) ==
    /\ procs[p].pc = "suggest_schema"
    /\ \E s \in {Suggest(procs[p].key, procs[p].val, load_schema(fs, procs[p].key))},
          me \in {Observed(procs[p], fs, SchemaFile(procs[p].key))} :
          procs' = [procs EXCEPT ![p] =
              IF s.status = "raised" THEN Finish(me, "raised")
              ELSE [me EXCEPT !.suggestions = s, !.pc = "prompt_result"]]
    /\ UNCHANGED <<fs, last>>

\* generate_llm_prompt: get_fix_suggestions, its load_test_results
PromptReadResult(p) ==
    /\ procs[p].pc = "prompt_result"
    /\ \E r \in {load_test_results(fs, procs[p].key)},
          me \in {[Observed(procs[p], fs, ResultFile(procs[p].key))
                      EXCEPT !.seen = fs[ResultFile(procs[p].key)]]} :
          procs' = [procs EXCEPT ![p] =
              IF r.status = "raised" THEN Finish(me, "raised")
              ELSE [me EXCEPT !.val = r, !.pc = "prompt_schema"]]
    /\ UNCHANGED <<fs, last>>

\* generate_llm_prompt: get_fix_suggestions, its load_schema and the rest
PromptReadSchema(p) ==
    /\ procs[p].pc = "prompt_schema"
    /\ \E s \in {Suggest(procs[p].key, procs[p].val, load_schema(fs, procs[p].key))},
          me \in {Observed(procs[p], fs, SchemaFile(procs[p].key))} :
          procs' = [procs EXCEPT ![p] =
              IF s.status = "raised" THEN Finish(me, "raised")
              ELSE [me EXCEPT !.got = s, !.pc = "prompt_schema_again"]]
    /\ UNCHANGED <<fs, last>>

\* generate_llm_prompt: its own load_schema and the rendering
PromptReadSchemaAgain(p) ==
    /\ procs[p].pc = "prompt_schema_again"
    /\ \E r \in {Render(procs[p].key, procs[p].got, load_schema(fs, procs[p].key))},
          me \in {Observed(procs[p], fs, SchemaFile(procs[p].key))} :
          procs' = [procs EXCEPT ![p] =
              IF r.status = "raised" THEN Finish(me, "raised")
              ELSE [me EXCEPT !.prompt = r, !.pc = "open_prompt"]]
    /\ UNCHANGED <<fs, last>>

\* run_fix_workflow: open(prompt_file, 'w')
OpenPrompt(p) ==
    /\ procs[p].pc = "open_prompt"
    /\ \E me \in {procs[p]}, path \in {PromptFile(procs[p].key)} :
          /\ fs' = Truncate(fs, path)
          /\ procs' = [procs EXCEPT ![p] =
                [Touch(me, path) EXCEPT !.pc = "write_prompt",
                                        !.alone = Truncate(me.alone, path)]]
    /\ UNCHANGED last

\* run_fix_workflow: f.write(prompt), then the report and the return value, which
\* read suggestions['schema_file']
WritePrompt(p) ==
    /\ procs[p].pc = "write_prompt"
    /\ \E me \in {procs[p]}, path \in {PromptFile(procs[p].key)},
          chunk \in {PromptData(procs[p].prompt.value)[1]} :
          /\ fs' = WriteAt(fs, path, 1, chunk)
          /\ procs' = [procs EXCEPT ![p] =
                Finish(WroteAlone(me, path, 1, chunk),
                       IF "schema_file" \in DOMAIN me.suggestions.value
                       THEN "returned" ELSE "raised")]
    /\ UNCHANGED last

ConcInit ==
    /\ fs = StartFiles
    /\ last = NoCall
    /\ procs \in [Procs -> {Start(c, k) : c \in Commands, k \in ConcKeys}]

ConcNext ==
    \E p \in Procs :
        \/ \E out \in ConcOutcomes : Post(p, out)
        \/ OpenResult(p)
        \/ WriteResult(p)
        \/ \E rout \in ReloadOutcomes : Reload(p, rout)
        \/ SuggestReadResult(p)
        \/ SuggestReadSchema(p)
        \/ PromptReadResult(p)
        \/ PromptReadSchema(p)
        \/ PromptReadSchemaAgain(p)
        \/ OpenPrompt(p)
        \/ WritePrompt(p)

SpecConc == ConcInit /\ [][ConcNext]_vars

----------------------------------------------------------------------------
(* Properties of the sequential workflows (Spec) *)

\* the last call ran the fix flow / the verify flow
RanFix == last.op = "run_fix_workflow" \/ (last.op = "main" /\ last.flow = "fix")
RanVerify == last.op = "verify_fix" \/ (last.op = "main" /\ last.flow = "verify")

\* C1: whatever the service answers, a fix flow whose test did not succeed returns
\* {success: false, fixes_needed: true, prompt_file, schema_file, suggestions} with
\* the prompt file written; it never ends in an exception.
C1_FixFlowNeverRaises ==
    (RanFix /\ ~Succeeded(last.testRet)) =>
        /\ last.ret.status = "returned"
        /\ ~last.ret.value.success
        /\ last.ret.value.fixes_needed
        /\ last.ret.value.prompt_file = PathStr(PromptFile(last.key))
        /\ fs[PromptFile(last.key)].exists

\* C2: a test call that fails (connection error, timeout, error status, malformed
\* body) returns {success: false, error: <non-empty message>} and leaves the result
\* file of its key exactly as it was.
C2_FailedTestLeavesResultFile ==
    (last.http.kind \in Failures) =>
        /\ fs[ResultFile(last.key)] = last.before
        /\ Len(last.testRet.v) = 2
        /\ Get(last.testRet, PStr(K_success), PNone) = PBool(FALSE)
        /\ Get(last.testRet, PStr(K_error), PNone).t = "str"
        /\ Len(Get(last.testRet, PStr(K_error), PNone).v) > 0

\* a failed test call found an earlier result in the file and left it there
C2_Witness ==
    /\ last.op = "test_schema"
    /\ last.http.kind = "Timeout"
    /\ last.before.exists
    /\ fs[ResultFile(last.key)] = last.before

\* C3: a test call that the service answers returns the parsed response, whatever
\* its success field, and right after it load_test_results gives a value equal to
\* the one returned: the response replaced what the file held.
C3_AnsweredTestIsPersisted ==
    (last.http.kind = "ok") =>
        /\ last.testRet = Load(last.http.body)
        /\ load_test_results(fs, last.key).status = "returned"
        /\ PyEq(load_test_results(fs, last.key).value, last.testRet)

\* a response reporting failure replaced a different earlier result
C3_Witness ==
    /\ last.op = "test_schema"
    /\ last.http.kind = "ok"
    /\ ~Succeeded(last.testRet)
    /\ last.before.exists
    /\ last.before # fs[ResultFile(last.key)]
    /\ PyEq(load_test_results(fs, last.key).value, last.testRet)

\* C4: the verify flow returns {success, test_result} with success the success of
\* the test alone; reload is requested once when the test succeeded, whatever the
\* reload then does, and not at all otherwise.
C4_VerifySuccessIsTestSuccess ==
    RanVerify =>
        /\ last.ret.status = "returned"
        /\ last.ret.value.success = Succeeded(last.testRet)
        /\ last.ret.value.test_result = last.testRet
        /\ last.reloads = (IF Succeeded(last.testRet) THEN 1 ELSE 0)
        /\ (last.rhttp.kind # "none") = Succeeded(last.testRet)

\* the test succeeded, the reload request failed on the network, and the flow
\* still reports success
C4_Witness ==
    /\ last.op = "verify_fix"
    /\ Succeeded(last.testRet)
    /\ last.rhttp.kind = "ConnectionError"
    /\ last.reloads = 1
    /\ last.ret.value.success

\* exactly `fix <key>`, `verify <key>` or `test <key>`
WellFormedArgs(args) ==
    Len(args) = 2 /\ args[1] \in {<<"fix">>, <<"verify">>, <<"test">>}

\* C7: main() with anything but exactly a subcommand and a key exits with status 1
\* and runs no flow: no request is sent.
C7_MalformedArgsRejected ==
    (last.op = "main" /\ ~WellFormedArgs(last.args)) =>
        /\ last.exit = 1
        /\ last.flow = "none"
        /\ last.http.kind = "none"

\* C10: the suggestions a fix flow returns carry the errors and warnings of the
\* result its own test call returned, never those of a result an earlier run left
\* in the file.
C10_SuggestionsFromOwnTest ==
    (RanFix /\ last.ret.status = "returned" /\ ~last.ret.value.success) =>
        /\ last.ret.value.suggestions.errors = Get(last.testRet, PStr(K_errors), PList(<<>>))
        /\ last.ret.value.suggestions.warnings = Get(last.testRet, PStr(K_warnings), PList(<<>>))

----------------------------------------------------------------------------
(* Properties of the schema store (SpecStore) *)

\* what json.load can give back: str keys, lists, no tuples
RECURSIVE JsonNative(_)
JsonNative(x) ==
    CASE x.t \in {"none", "bool", "int", "str"} -> TRUE
      [] x.t = "list" -> \A i \in 1..Len(x.v) : JsonNative(x.v[i])
      [] x.t = "dict" -> \A i \in 1..Len(x.v) : x.v[i][1].t = "str" /\ JsonNative(x.v[i][2])
      [] OTHER -> FALSE

SavedTrue == last.op = "save_schema" /\ last.ret.value = PBool(TRUE)

\* C6 as stated: after save_schema(key, doc) returned true, load_schema(key) gives a
\* value deep-equal to doc, for every mapping doc that json can serialize.
C6_RoundTripAnyMapping ==
    SavedTrue =>
        /\ load_schema(fs, last.key).status = "returned"
        /\ PyEq(load_schema(fs, last.key).value, last.doc)

\* C6 amended: the same for every mapping doc made of str keys, lists, strings,
\* numbers, booleans and None, whatever the schema file held before.
C6_RoundTripJsonNative ==
    (SavedTrue /\ JsonNative(last.doc)) =>
        /\ load_schema(fs, last.key).status = "returned"
        /\ PyEq(load_schema(fs, last.key).value, last.doc)

\* a mapping of str keys was saved over a longer, different schema and loads back
C6_Witness ==
    /\ SavedTrue
    /\ JsonNative(last.doc)
    /\ last.before.exists
    /\ Len(last.before.data) > Len(fs[SchemaFile(last.key)].data)
    /\ PyEq(load_schema(fs, last.key).value, last.doc)

----------------------------------------------------------------------------
(* Properties of the suggestion generator (SpecSuggest) *)

\* sub occurs in s whatever the case of the letters of s
ContainsFolded(s, sub) ==
    \E i \in 0..(Len(s) - Len(sub)) :
        \A j \in 1..Len(sub) :
            (IF s[i + j] \in DOMAIN LowerMap THEN LowerMap[s[i + j]] ELSE s[i + j]) = sub[j]

\* the tiers of C5 as a decision table: the issue and priority an error yields
TierEntry(e) ==
    LET notFound == ContainsFolded(e, N_not_found)
        missing == ContainsFolded(e, N_validation_failed) \/ ContainsFolded(e, N_missing)
        header == ContainsFolded(e, N_header)
        processLabel == ContainsFolded(e, N_process) /\ ContainsFolded(e, N_label)
        flow == ContainsFolded(e, N_invalid) \/ ContainsFolded(e, N_flow)
    IN CASE notFound -> << <<"Schema file missing", "high">> >>
         [] ~notFound /\ missing /\ header -> << <<"Missing group header", "high">> >>
         [] ~notFound /\ missing /\ ~header /\ processLabel -> << <<"Missing process label", "high">> >>
         [] ~notFound /\ missing /\ ~header /\ ~processLabel -> <<>>
         [] ~notFound /\ ~missing /\ flow -> << <<"Invalid flow position", "medium">> >>
         [] OTHER -> <<>>

RECURSIVE TierEntries(_)
TierEntries(errors) ==
    IF errors = <<>> THEN <<>> ELSE TierEntry(Head(errors).v) \o TierEntries(Tail(errors))

IssuesOf(fixes) == [i \in 1..Len(fixes) |-> <<fixes[i].issue, fixes[i].priority>>]

Suggested == last.op = "get_fix_suggestions" /\ last.ret.status = "returned"
                 /\ "fixes_needed" \in DOMAIN last.ret.value

\* C5: fixes_needed is, in the order of the errors, what the ordered tiers give for
\* each error matched without regard to case: at most one entry per error, and an
\* error of the "validation failed"/"missing" tier never reaches the
\* "invalid"/"flow" tier.
C5_FixesFollowTiers ==
    Suggested => IssuesOf(last.ret.value.fixes_needed) = TierEntries(last.ret.value.errors.v)

\* upper-case "VALIDATION FAILED: missing HEADER" and "missing process label", in
\* that order
C5_Witness ==
    /\ Suggested
    /\ last.ret.value.errors.v = <<PStr(E_HEADER), PStr(E_label)>>
    /\ IssuesOf(last.ret.value.fixes_needed)
           = << <<"Missing group header", "high">>, <<"Missing process label", "high">> >>

----------------------------------------------------------------------------
(* Properties of concurrent invocations (SpecConc) *)

\* a key with no path separator in it
Plain(key) == Len(key) = 1

\* the run p is not disturbed by the run q: they touched no common path, every
\* read of p found what p alone would have found, and at its end the files of p
\* are as p alone would have left them
Undisturbed(p, q) ==
    /\ procs[p].touched \cap procs[q].touched = {}
    /\ procs[p].clean
    /\ (procs[p].pc = "done" =>
           \A path \in OwnPaths(procs[p].key) : fs[path] = procs[p].alone[path])

\* C8 as stated: two concurrent runs with different keys never touch a common
\* file, so each reads and leaves what it would when run alone.
C8_DifferentKeysUndisturbed ==
    \A p, q \in Procs :
        (p # q /\ procs[p].key # procs[q].key) => Undisturbed(p, q)

\* C8 amended: the same for two different keys that contain no path separator.
C8_PlainKeysUndisturbed ==
    \A p, q \in Procs :
        (p # q /\ procs[p].key # procs[q].key /\ Plain(procs[p].key) /\ Plain(procs[q].key))
            => Undisturbed(p, q)

\* a fix run on one key has written its prompt and returned while a run on another
\* key is writing its result file
C8_Witness ==
    /\ procs["p"].key = Furnace /\ procs["p"].cmd = "fix"
    /\ procs["p"].pc = "done" /\ procs["p"].status = "returned"
    /\ PromptFile(Furnace) \in procs["p"].touched
    /\ procs["q"].key = Assembler /\ procs["q"].pc = "write_result" /\ procs["q"].pos = 2

\* a result file that is absent or holds one complete response
WholeResult(file) ==
    ~file.exists \/ (Complete(file.data) /\ file.data[1].doc.t = "object")

\* C9: two runs on the same key: whatever load_test_results reads from the result
\* file is the earlier content or one complete response, and so is the file once
\* both runs have ended; never an empty, partial or mixed file.
C9_ReadsAreWhole ==
    \A p, q \in Procs :
        (p # q /\ procs[p].key = procs[q].key) =>
            /\ WholeResult(procs[p].seen)
            /\ (procs[p].pc = "done" /\ procs[q].pc = "done"
                   => WholeResult(fs[ResultFile(procs[p].key)]))

====
